---- MODULE Spec2Model ----
(***************************************************************************)
(* typemux: type-keyed dispatch registry and key-keyed factory registry.   *)
(*                                                                         *)
(* A Go map is a reference: the registries hold map handles and the model  *)
(* keeps the map contents in a heap (hmaps, fmaps), handle 0 being the nil *)
(* map.  A reflect.Type is modelled by the pointer depth over one struct   *)
(* type T (0 = T, 1 = *T, 2 = **T); NilType is reflect.TypeOf(nil).        *)
(***************************************************************************)
EXTENDS Integers, Sequences, FiniteSets, TLC

VARIABLES hmaps, rh, fmaps, rf, sealed, latestH, latestF, nops, last, th, mu

vars == <<hmaps, rh, fmaps, rf, sealed, latestH, latestF, nops, last, th, mu>>

\* ------------------------------------------------------------------ bounds
\* number of mutating calls (RegisterDispatch, RegisterFactory, Seal) in a run
MaxOps == 3
\* longest middleware list explored by the middleware specification
MaxMw == 2

\* ------------------------------------------------------------------ types and values
NilType == -1
NoType == -2
Types == {0, 1, 2}

NilValue == [typ |-> NilType, nilAt |-> 0, data |-> 0]
NoValue == [typ |-> NoType, nilAt |-> 0, data |-> 0]

\* A value of pointer depth typ over T.  nilAt = 0: the chain of pointers
\* reaches a T holding data; nilAt = k > 0: the pointer of depth k is nil.
Values ==
  {NilValue} \cup
  { w \in [typ : Types, nilAt : 0..2, data : {0, 1}] :
      /\ w.nilAt <= w.typ
      /\ w.data = (IF w.nilAt = 0 THEN 1 ELSE 0) }

TypeOf(v) == v.typ

IsPtr(typ) == typ >= 1

ElemType(typ) == typ - 1

IsNilPtr(v) == IsPtr(v.typ) /\ v.nilAt = v.typ

ElemValue(v) == [typ |-> v.typ - 1, nilAt |-> v.nilAt, data |-> v.data]

\* ------------------------------------------------------------------ errors, events, results
NoErr == [kind |-> "nil", typ |-> NoType, key |-> ""]
ErrHandlerNotFound(typ) == [kind |-> "HandlerNotFound", typ |-> typ, key |-> ""]
ErrTypeAssert(typ) == [kind |-> "expected", typ |-> typ, key |-> ""]
ErrFactoryNotFound(key) == [kind |-> "FactoryNotFound", typ |-> NoType, key |-> key]
ErrDataTypeNotSupported(DATA) == [kind |-> "DataTypeNotSupported", typ |-> NoType, key |-> DATA]
ErrUser(who, id) == [kind |-> who, typ |-> id, key |-> ""]

Event(e, id, v) == [e |-> e, id |-> id, val |-> v]

Returned(err, trace, val) == [panic |-> FALSE, err |-> err, trace |-> trace, val |-> val]
Panicked(trace) == [panic |-> TRUE, err |-> NoErr, trace |-> trace, val |-> NoValue]
NoResult == Returned(NoErr, <<>>, NoValue)

\* ------------------------------------------------------------------ maps on the heap
EmptyMap == [k \in {} |-> 0]

\* the composite Registry embeds *DispatchRegistry and *FactoryRegistry: in its
\* zero value both are nil pointers, and the registry has no map at all
NilRegistry == -1

\* contents of the map behind a handle; a nil map reads as empty (and there is
\* nothing to read behind a nil registry)
MapOf(heap, id) == IF id = 0 \/ id = NilRegistry THEN EmptyMap ELSE heap[id]

MapPut_keepFirst(m, k, e) ==
  [x \in (DOMAIN m) \cup {k} |-> IF x \in DOMAIN m THEN m[x] ELSE e]

MapPut_dropsOthers(m, k, e) == [x \in {k} |-> e]

\* m[k] = e
MapPut(m, k, e) ==
  [x \in (DOMAIN m) \cup {k} |-> IF x = k THEN e ELSE m[x]]

\* r.h after "if r.h == nil { r.h = make(...) }"
Ensure(heap, id) == IF id = 0 THEN Len(heap) + 1 ELSE id
EnsureHeap(heap, id) == IF id = 0 THEN Append(heap, EmptyMap) ELSE heap

CloneTarget_alias(heap, id) == id

\* handle of the map maps.Clone returns (Clone of a nil map is nil)
CloneTarget(heap, id) == IF id = 0 THEN 0 ELSE Len(heap) + 1

CloneHeap_empty(heap, id) == IF id = 0 THEN heap ELSE Append(heap, EmptyMap)

\* the heap after maps.Clone
CloneHeap(heap, id) == IF id = 0 THEN heap ELSE Append(heap, heap[id])

\* ------------------------------------------------------------------ user code
\* Middleware bodies are user code.  A "pass" middleware records its entry,
\* calls next, records its exit and returns what next returned; a "block"
\* middleware records its entry and returns its own error without calling next.
MwIds == {1, 2}
MwKinds == {"pass", "block"}
Mw(id, kind) == [id |-> id, kind |-> kind]

\* Handlers 1 and 2 record the call and return nil; handler 3 returns its own error.
FailingHandlers == {3}

HandlerBody(hid, v) ==
  Returned(IF hid \in FailingHandlers THEN ErrUser("handler", hid) ELSE NoErr,
           <<Event("H", hid, v)>>, NoValue)

\* A typed middleware made by MiddlewareFunc(f): f is user code that records
\* its call and returns (cont, err), err being nil unless fails
MwFunc(id, cont, fails) == [id |-> id, kind |-> "func", cont |-> cont, fails |-> fails]

MiddlewareFunc_ignoresCont(f, next) ==
  IF f.fails
  THEN Returned(ErrUser("f", f.id), <<Event("F", f.id, NoValue)>>, NoValue)
  ELSE [next EXCEPT !.trace = <<Event("F", f.id, NoValue)>> \o @]

\* the handler MiddlewareFunc(f)(next) returns, run: next is the outcome of
\* calling next(ctx, val), used only on the path that calls it
MiddlewareFunc(f, next) ==
  IF f.fails
  THEN Returned(ErrUser("f", f.id), <<Event("F", f.id, NoValue)>>, NoValue)
  ELSE IF ~f.cont
  THEN Returned(NoErr, <<Event("F", f.id, NoValue)>>, NoValue)
  ELSE [next EXCEPT !.trace = <<Event("F", f.id, NoValue)>> \o @]

\* one middleware layer around the result of its next.  Besides "pass" and
\* "block": a "skip" middleware records its entry and returns nil without
\* calling next; a "swallow" middleware calls next, records the error next
\* returned and returns nil.
Layer(tag, mw, inner) ==
  IF mw.kind = "func" THEN MiddlewareFunc(mw, inner)
  ELSE IF mw.kind = "skip"
  THEN Returned(NoErr, <<Event(tag \o "-before", mw.id, NoValue)>>, NoValue)
  ELSE IF mw.kind = "swallow" /\ ~inner.panic
  THEN Returned(NoErr,
                <<Event(tag \o "-before", mw.id, NoValue)>> \o inner.trace
                  \o <<Event(tag \o "-dropped", mw.id, inner.err)>>,
                NoValue)
  ELSE IF mw.kind = "block"
  THEN Returned(ErrUser("middleware", mw.id), <<Event(tag \o "-before", mw.id, NoValue)>>, NoValue)
  ELSE IF inner.panic
  THEN Panicked(<<Event(tag \o "-before", mw.id, NoValue)>> \o inner.trace)
  ELSE Returned(inner.err,
                <<Event(tag \o "-before", mw.id, NoValue)>> \o inner.trace
                  \o <<Event(tag \o "-after", mw.id, NoValue)>>,
                NoValue)

\* ------------------------------------------------------------------ dispatch core
RECURSIVE applyMiddlewareLoop_forward(_, _, _)
applyMiddlewareLoop_forward(middleware, i, final) ==
  IF i = 0 THEN final
  ELSE applyMiddlewareLoop_forward(middleware, i - 1, final \o <<middleware[i]>>)

\* for i := len(middleware)-1; i >= 0; i-- { final = middleware[i](final) }
\* final is the list of layers around base, outermost first
RECURSIVE applyMiddlewareLoop(_, _, _)
applyMiddlewareLoop(middleware, i, final) ==
  IF i = 0 THEN final
  ELSE applyMiddlewareLoop(middleware, i - 1, <<middleware[i]>> \o final)

applyMiddleware(middleware) == applyMiddlewareLoop(middleware, Len(middleware), <<>>)

\* running the composed typed handler
RECURSIVE RunTyped(_, _, _)
RunTyped(chain, hid, v) ==
  IF chain = <<>> THEN HandlerBody(hid, v)
  ELSE Layer("typed", Head(chain),
             IF Head(chain).kind = "block" THEN NoResult
             ELSE RunTyped(Tail(chain), hid, v))

wrapTypedHandler_rawHandler(entry, v) ==
  IF TypeOf(v) # entry.typ
  THEN Returned(ErrTypeAssert(entry.typ), <<>>, NoValue)
  ELSE HandlerBody(entry.hid, v)

\* the closure wrapTypedHandler returns: narrow v to T, then run the typed chain
wrapTypedHandler(entry, v) ==
  IF TypeOf(v) # entry.typ
  THEN Returned(ErrTypeAssert(entry.typ), <<>>, NoValue)
  ELSE RunTyped(entry.chain, entry.hid, v)

call_reverseFallback(typ, v, h) ==
  IF typ \in DOMAIN h THEN wrapTypedHandler(h[typ], v)
  ELSE IF typ = NilType THEN Panicked(<<>>)
  ELSE IF IsPtr(typ) /\ ElemType(typ) \in DOMAIN h
  THEN (IF IsNilPtr(v) THEN Panicked(<<>>)
        ELSE wrapTypedHandler(h[ElemType(typ)], ElemValue(v)))
  ELSE IF (typ + 1) \in DOMAIN h
  THEN wrapTypedHandler(h[typ + 1], [v EXCEPT !.typ = typ + 1])
  ELSE Returned(ErrHandlerNotFound(typ), <<>>, NoValue)

call_wrongTypeNamed(typ, v, h) ==
  IF typ \in DOMAIN h THEN wrapTypedHandler(h[typ], v)
  ELSE IF typ = NilType THEN Panicked(<<>>)
  ELSE IF IsPtr(typ) /\ ElemType(typ) \in DOMAIN h
  THEN (IF IsNilPtr(v) THEN Panicked(<<>>)
        ELSE wrapTypedHandler(h[ElemType(typ)], ElemValue(v)))
  ELSE Returned(ErrHandlerNotFound(ElemType(typ)), <<>>, NoValue)

call_elemFirst(typ, v, h) ==
  IF typ = NilType THEN Panicked(<<>>)
  ELSE IF IsPtr(typ) /\ ElemType(typ) \in DOMAIN h
  THEN (IF IsNilPtr(v) THEN Panicked(<<>>)
        ELSE wrapTypedHandler(h[ElemType(typ)], ElemValue(v)))
  ELSE IF typ \in DOMAIN h THEN wrapTypedHandler(h[typ], v)
  ELSE Returned(ErrHandlerNotFound(typ), <<>>, NoValue)

\* call: exact lookup, then for a pointer the element type, else not found.
\* typ.Kind() on the nil reflect.Type of an untyped nil panics, and so does
\* reflect.ValueOf(v).Elem().Interface() on a nil pointer.
call(typ, v, h) ==
  IF typ \in DOMAIN h THEN wrapTypedHandler(h[typ], v)
  ELSE IF typ = NilType THEN Panicked(<<>>)
  ELSE IF IsPtr(typ) /\ ElemType(typ) \in DOMAIN h
  THEN (IF IsNilPtr(v) THEN Panicked(<<>>)
        ELSE wrapTypedHandler(h[ElemType(typ)], ElemValue(v)))
  ELSE Returned(ErrHandlerNotFound(typ), <<>>, NoValue)

RECURSIVE DispatchLoop_forward(_, _, _)
DispatchLoop_forward(middleware, i, chain) ==
  IF i = 0 THEN chain
  ELSE DispatchLoop_forward(middleware, i - 1, chain \o <<middleware[i]>>)

\* for i := len(middleware)-1; i >= 0; i-- { call = mw(ctx, v, next=call) }
RECURSIVE DispatchLoop(_, _, _)
DispatchLoop(middleware, i, chain) ==
  IF i = 0 THEN chain
  ELSE DispatchLoop(middleware, i - 1, <<middleware[i]>> \o chain)

RECURSIVE RunCross_runsInner(_, _, _, _)
RunCross_runsInner(chain, typ, v, h) ==
  IF chain = <<>> THEN call(typ, v, h)
  ELSE LET inner == RunCross_runsInner(Tail(chain), typ, v, h)
           r == Layer("mw", Head(chain), inner)
       IN IF Head(chain).kind = "block" THEN [r EXCEPT !.trace = @ \o inner.trace] ELSE r

\* running the chain Dispatch built: each middleware decides whether its next runs
RECURSIVE RunCross(_, _, _, _)
RunCross(chain, typ, v, h) ==
  IF chain = <<>> THEN call(typ, v, h)
  ELSE Layer("mw", Head(chain),
             IF Head(chain).kind = "block" THEN NoResult
             ELSE RunCross(Tail(chain), typ, v, h))

DispatchResult_resolvesFirst(h, v, middleware) ==
  IF Len(middleware) = 0 \/ call(TypeOf(v), v, h).err.kind = "HandlerNotFound"
  THEN call(TypeOf(v), v, h)
  ELSE RunCross(DispatchLoop(middleware, Len(middleware), <<>>), TypeOf(v), v, h)

\* Dispatch(disp, ctx, v, middleware...) against the handler map h
DispatchResult(h, v, middleware) ==
  IF Len(middleware) = 0 THEN call(TypeOf(v), v, h)
  ELSE RunCross(DispatchLoop(middleware, Len(middleware), <<>>), TypeOf(v), v, h)

\* the same chain when disp.call has a nil *DispatchRegistry for receiver:
\* r.mu.RLock() dereferences it
RECURSIVE RunCrossOnNil(_)
RunCrossOnNil(chain) ==
  IF chain = <<>> THEN Panicked(<<>>)
  ELSE Layer("mw", Head(chain),
             IF Head(chain).kind = "block" THEN NoResult
             ELSE RunCrossOnNil(Tail(chain)))

\* ------------------------------------------------------------------ factory core
Keys == {"k1", "k2"}

\* data handed to CreateType: a byte slice (payload 2 does not decode), a
\* string, or the nil interface
DataValues ==
  { [dtype |-> "bytes", payload |-> 1], [dtype |-> "bytes", payload |-> 2],
    [dtype |-> "string", payload |-> 1], [dtype |-> "nil", payload |-> 0] }

NoData == [dtype |-> "nil", payload |-> 0]

\* Constructors are user code: a decoder in the manner of JSONFactory, which
\* returns the value it built and the decoder's error.
Constructor(cid, d) ==
  IF d.payload = 2
  THEN Returned(ErrUser("constructor", cid), <<Event("C", cid, NoValue)>>,
                [typ |-> 0, nilAt |-> 0, data |-> 0])
  ELSE Returned(NoErr, <<Event("C", cid, NoValue)>>,
                [typ |-> 0, nilAt |-> 0, data |-> d.payload])

\* d, ok := data.(DATA): for a concrete DATA the dynamic type must be DATA; for
\* the interface type any, every non-nil interface value qualifies
TypeAssertData(d, DATA) ==
  IF DATA = "any" THEN d.dtype # "nil" ELSE d.dtype = DATA

factoryFuncAny_noGuard(entry, d) == Constructor(entry.cid, d)

factoryFuncAny_wrapsError(entry, d) ==
  IF ~TypeAssertData(d, entry.DATA)
  THEN Returned(ErrDataTypeNotSupported(entry.DATA), <<>>, NilValue)
  ELSE LET r == Constructor(entry.cid, d)
       IN IF r.err = NoErr THEN r
          ELSE Returned(ErrUser("wrapped", entry.cid), r.trace, NilValue)

\* the closure RegisterFactory stores
factoryFuncAny(entry, d) ==
  IF ~TypeAssertData(d, entry.DATA)
  THEN Returned(ErrDataTypeNotSupported(entry.DATA), <<>>, NilValue)
  ELSE Constructor(entry.cid, d)

CreateTypeResult_anyFactory(f, key, d) ==
  IF key \in DOMAIN f THEN factoryFuncAny(f[key], d)
  ELSE IF DOMAIN f # {} THEN factoryFuncAny(f[CHOOSE k \in DOMAIN f : TRUE], d)
  ELSE Returned(ErrFactoryNotFound(key), <<>>, NilValue)

\* CreateType(reg, key, data) against the factory map f
CreateTypeResult(f, key, d) ==
  IF key \notin DOMAIN f
  THEN Returned(ErrFactoryNotFound(key), <<>>, NilValue)
  ELSE factoryFuncAny(f[key], d)

\* ------------------------------------------------------------------ threads and locks
\* goroutines calling into one registry
Threads == {1, 2, 3}

\* a sync.RWMutex: w is the goroutine that has called Lock and announced itself
\* (0: none), which keeps new readers out from then on; r counts the read
\* locks each goroutine holds
FreeMutex == [w |-> 0, r |-> [t \in Threads |-> 0]]

\* where a goroutine stands: pc is its position, ret the position a nested
\* call returns to, res the result of its latest Dispatch / CreateType,
\* hcopy the handler map a composite Seal has copied so far, seen the
\* (handler map, factory map) pairs the mutable registry went through since
\* its Seal call began, joint whether its finished Seal matches one of them
\* (atH: the registrations made before the handler map was copied)
IdleThread ==
  [pc |-> "idle", ret |-> "idle", op |-> "none", reg |-> 0, v |-> NoValue, hid |-> 0,
   key |-> "", data |-> NoData, res |-> NoResult, hcopy |-> 0, atH |-> EmptyMap,
   seen |-> {}, joint |-> TRUE]

\* ------------------------------------------------------------------ state
Done(op, reg, v, mw, key, d, res) ==
  [op |-> op, reg |-> reg, v |-> v, mw |-> mw, key |-> key, data |-> d, res |-> res]

\* NewRegistry(): both maps made and empty, nothing sealed
Init ==
  /\ hmaps = <<EmptyMap>>
  /\ rh = 1
  /\ fmaps = <<EmptyMap>>
  /\ rf = 1
  /\ sealed = <<>>
  /\ latestH = EmptyMap
  /\ latestF = EmptyMap
  /\ nops = 0
  /\ last = Done("NewRegistry", 0, NoValue, <<>>, "", NoData, NoResult)
  /\ th = [t \in Threads |-> IdleThread]
  /\ mu = [h |-> FreeMutex, f |-> FreeMutex]

\* the zero values: &DispatchRegistry{} and &FactoryRegistry{} have a nil map
\* each (handle 0); in &Registry{} the two components are nil pointers
InitZero ==
  /\ hmaps = <<>>
  /\ fmaps = <<>>
  /\ \/ rh = 0 /\ rf = 0
     \/ rh = NilRegistry /\ rf = NilRegistry
  /\ sealed = <<>>
  /\ latestH = EmptyMap
  /\ latestF = EmptyMap
  /\ nops = 0
  /\ last = Done("ZeroValue", 0, NoValue, <<>>, "", NoData, NoResult)
  /\ th = [t \in Threads |-> IdleThread]
  /\ mu = [h |-> FreeMutex, f |-> FreeMutex]

\* the handler map a dispatcher reads: reg = 0 is the mutable registry,
\* reg = i > 0 the i-th sealed registry
HandlersOf(reg) == MapOf(hmaps, IF reg = 0 THEN rh ELSE sealed[reg].h)
FactoriesOf(reg) == MapOf(fmaps, IF reg = 0 THEN rf ELSE sealed[reg].f)

\* RegisterDispatch[T](reg, handler, middleware...) and registerDispatch
RegisterDispatch(typ, hid, middleware) ==
  /\ nops < MaxOps
  /\ IF rh = NilRegistry
     THEN /\ UNCHANGED <<rh, hmaps, latestH>>
          /\ last' = Done("RegisterDispatch", 0, [NoValue EXCEPT !.typ = typ], middleware, "",
                          NoData, Panicked(<<>>))
     ELSE /\ LET entry == [typ |-> typ, hid |-> hid, chain |-> applyMiddleware(middleware)]
                 id == Ensure(hmaps, rh)
             IN /\ rh' = id
                /\ hmaps' = [EnsureHeap(hmaps, rh) EXCEPT ![id] = MapPut(@, typ, entry)]
          /\ latestH' = [x \in (DOMAIN latestH) \cup {typ} |->
                           IF x = typ THEN [hid |-> hid, mw |-> middleware] ELSE latestH[x]]
          /\ last' = Done("RegisterDispatch", 0, [NoValue EXCEPT !.typ = typ], middleware, "",
                          NoData, NoResult)
  /\ nops' = nops + 1
  /\ UNCHANGED <<fmaps, rf, sealed, latestF, th, mu>>

\* RegisterFactory[KEY, DATA, T](reg, key, factory) and registerFactory;
\* latestF remembers the call, and in old the constructors it replaced
RegisterFactory(key, DATA, cid) ==
  /\ nops < MaxOps
  /\ IF rf = NilRegistry
     THEN /\ UNCHANGED <<rf, fmaps, latestF>>
          /\ last' = Done("RegisterFactory", 0, NoValue, <<>>, key, NoData, Panicked(<<>>))
     ELSE /\ LET entry == [DATA |-> DATA, cid |-> cid]
                 id == Ensure(fmaps, rf)
             IN /\ rf' = id
                /\ fmaps' = [EnsureHeap(fmaps, rf) EXCEPT ![id] = MapPut(@, key, entry)]
          /\ latestF' = [x \in (DOMAIN latestF) \cup {key} |->
                           IF x = key
                           THEN [DATA |-> DATA, cid |-> cid,
                                 old |-> IF key \in DOMAIN latestF
                                         THEN latestF[key].old \cup {latestF[key].cid} ELSE {}]
                           ELSE latestF[x]]
          /\ last' = Done("RegisterFactory", 0, NoValue, <<>>, key, NoData, NoResult)
  /\ nops' = nops + 1
  /\ UNCHANGED <<hmaps, rh, sealed, latestH, th, mu>>

Seal_movesMaps ==
  /\ nops < MaxOps
  /\ hmaps' = hmaps
  /\ fmaps' = fmaps
  /\ sealed' = Append(sealed, [h |-> rh, f |-> rf, atH |-> latestH, atF |-> latestF])
  /\ rh' = 0
  /\ rf' = 0
  /\ nops' = nops + 1
  /\ last' = Done("Seal", Len(sealed) + 1, NoValue, <<>>, "", NoData, NoResult)
  /\ UNCHANGED <<latestH, latestF, th, mu>>

\* (*Registry).Seal: DispatchRegistry.Seal, then FactoryRegistry.Seal.
\* atH and atF remember the registrations made before the call.
\* On a nil component the method's r.mu.RLock() dereferences the nil receiver.
Seal ==
  /\ nops < MaxOps
  /\ IF rh = NilRegistry \/ rf = NilRegistry
     THEN /\ UNCHANGED <<hmaps, fmaps, sealed>>
          /\ last' = Done("Seal", 0, NoValue, <<>>, "", NoData, Panicked(<<>>))
     ELSE /\ hmaps' = CloneHeap(hmaps, rh)
          /\ fmaps' = CloneHeap(fmaps, rf)
          /\ sealed' = Append(sealed, [h |-> CloneTarget(hmaps, rh), f |-> CloneTarget(fmaps, rf),
                                       atH |-> latestH, atF |-> latestF])
          /\ last' = Done("Seal", Len(sealed) + 1, NoValue, <<>>, "", NoData, NoResult)
  /\ nops' = nops + 1
  /\ UNCHANGED <<rh, rf, latestH, latestF, th, mu>>

\* Dispatch(reg, ctx, v, middleware...)
Dispatch(reg, v, middleware) ==
  /\ last' = Done("Dispatch", reg, v, middleware, "", NoData,
                  IF reg = 0 /\ rh = NilRegistry
                  THEN RunCrossOnNil(DispatchLoop(middleware, Len(middleware), <<>>))
                  ELSE DispatchResult(HandlersOf(reg), v, middleware))
  /\ UNCHANGED <<hmaps, rh, fmaps, rf, sealed, latestH, latestF, nops, th, mu>>

\* CreateType(reg, key, data)
CreateType(reg, key, d) ==
  /\ last' = Done("CreateType", reg, NoValue, <<>>, key, d,
                  IF reg = 0 /\ rf = NilRegistry
                  THEN Panicked(<<>>)
                  ELSE CreateTypeResult(FactoriesOf(reg), key, d))
  /\ UNCHANGED <<hmaps, rh, fmaps, rf, sealed, latestH, latestF, nops, th, mu>>

\* ------------------------------------------------------------------ inputs
RECURSIVE SeqsUpTo(_, _)
SeqsUpTo(S, n) ==
  IF n = 0 THEN {<<>>}
  ELSE SeqsUpTo(S, n - 1) \cup {Append(q, x) : q \in {p \in SeqsUpTo(S, n - 1) : Len(p) = n - 1}, x \in S}

\* registry specification: handlers for T and *T, with and without typed middleware
RegTypes == {0, 1}
HandlerOptions == { [hid |-> 1, mw |-> <<>>], [hid |-> 2, mw |-> <<Mw(1, "pass")>>] }
FactoryOptions == { [DATA |-> "bytes", cid |-> 1], [DATA |-> "any", cid |-> 2] }
CrossLists == { <<>>, <<Mw(1, "pass")>> }

\* middleware specification: every list up to MaxMw over the pool
MwPool == { Mw(1, "pass"), Mw(2, "pass"), Mw(1, "block") }
MwLists == SeqsUpTo(MwPool, MaxMw)
MwValues == { v \in Values : v.typ \in {0, 1} /\ v.nilAt = 0 }

Next ==
  \/ \E typ \in RegTypes, o \in HandlerOptions : RegisterDispatch(typ, o.hid, o.mw)
  \/ \E key \in Keys, o \in FactoryOptions : RegisterFactory(key, o.DATA, o.cid)
  \/ Seal
  \/ \E reg \in 0..Len(sealed), v \in Values, mw \in CrossLists : Dispatch(reg, v, mw)
  \/ \E reg \in 0..Len(sealed), key \in Keys, d \in DataValues : CreateType(reg, key, d)

Spec == Init /\ [][Next]_vars

NextMw ==
  \/ \E hid \in {1, 3}, mw \in MwLists : RegisterDispatch(0, hid, mw)
  \/ \E v \in MwValues, mw \in MwLists : Dispatch(0, v, mw)

SpecMw == Init /\ [][NextMw]_vars

\* typed middleware made by MiddlewareFunc, in lists up to MaxMw
FnPool == { MwFunc(1, TRUE, FALSE), MwFunc(2, TRUE, FALSE), MwFunc(2, FALSE, FALSE),
            MwFunc(1, TRUE, TRUE), MwFunc(2, FALSE, TRUE) }
FnLists == SeqsUpTo(FnPool, MaxMw)

NextFn ==
  \/ \E hid \in {1, 3}, mw \in FnLists : RegisterDispatch(0, hid, mw)
  \/ \E v \in MwValues : Dispatch(0, v, <<>>)

SpecFn == Init /\ [][NextFn]_vars

\* cross-cutting middleware that hand next's error up, drop it, or do not call
\* next, around a registry that holds a handler for T, for *T, for both or none
DropPool == { Mw(1, "pass"), Mw(2, "pass"), Mw(1, "swallow"), Mw(2, "swallow"), Mw(2, "skip") }
DropLists == SeqsUpTo(DropPool, MaxMw)

NextDrop ==
  \/ \E typ \in RegTypes : RegisterDispatch(typ, 1, <<>>)
  \/ \E v \in MwValues, mw \in DropLists : Dispatch(0, v, mw)

SpecDrop == Init /\ [][NextDrop]_vars

\* the same calls on registries that were not made by a constructor
SpecZero == InitZero /\ [][Next]_vars

\* ------------------------------------------------------------------ vocabulary of the properties
\* the registrations a registry is documented to hold: every RegisterDispatch /
\* RegisterFactory call made on the mutable registry so far (reg = 0), or made
\* before the Seal call that produced the sealed registry (reg > 0)
Registered(reg) == IF reg = 0 THEN latestH ELSE sealed[reg].atH
RegisteredF(reg) == IF reg = 0 THEN latestF ELSE sealed[reg].atF

IsH(e) == e.e = "H"
IsC(e) == e.e = "C"
HEvents(trace) == SelectSeq(trace, IsH)
CEvents(trace) == SelectSeq(trace, IsC)
AllPass(middleware) == \A i \in 1..Len(middleware) : middleware[i].kind = "pass"
Reverse(q) == [i \in 1..Len(q) |-> q[Len(q) + 1 - i]]
Befores(tag, middleware) ==
  [i \in 1..Len(middleware) |-> Event(tag \o "-before", middleware[i].id, NoValue)]
Afters(tag, middleware) ==
  [i \in 1..Len(middleware) |-> Event(tag \o "-after", middleware[Len(middleware) + 1 - i].id, NoValue)]

\* ------------------------------------------------------------------ C1
\* C1: with a handler registered for T and none for *T, Dispatch of any *T
\* value - on the mutable and on a sealed registry - does not fault, returns
\* the handler's nil, and runs the T handler exactly once on the dereferenced
\* value.
C1_PointerFallback ==
  (/\ last.op = "Dispatch"
   /\ IsPtr(last.v.typ)
   /\ last.v.typ \notin DOMAIN Registered(last.reg)
   /\ ElemType(last.v.typ) \in DOMAIN Registered(last.reg))
  => /\ ~last.res.panic
     /\ last.res.err = NoErr
     /\ HEvents(last.res.trace) =
          <<Event("H", Registered(last.reg)[ElemType(last.v.typ)].hid, ElemValue(last.v))>>

\* ------------------------------------------------------------------ C2
\* C2: with a handler registered for *T and none for T, Dispatch of a bare T
\* value returns HandlerNotFound for T and runs no handler.
C2_NoReverseFallback ==
  (/\ last.op = "Dispatch"
   /\ last.v.typ = 0
   /\ 0 \notin DOMAIN Registered(last.reg)
   /\ 1 \in DOMAIN Registered(last.reg))
  => /\ ~last.res.panic
     /\ last.res.err = ErrHandlerNotFound(0)
     /\ HEvents(last.res.trace) = <<>>

C2_Witness ==
  /\ last.op = "Dispatch"
  /\ last.v.typ = 0
  /\ DOMAIN Registered(last.reg) = {1}
  /\ last.res.err.kind = "HandlerNotFound"

\* ------------------------------------------------------------------ C3
\* C3: a RegisterDispatch call always takes effect, and Dispatch on the mutable
\* registry of a value whose exact type T is registered runs the typed
\* middleware and the handler of the most recent RegisterDispatch for T, once,
\* and nothing of any earlier registration.
C3_LastWriteWins ==
  /\ (last.op = "RegisterDispatch") =>
       /\ last.v.typ \in DOMAIN HandlersOf(0)
       /\ HandlersOf(0)[last.v.typ].hid = latestH[last.v.typ].hid
  /\ (/\ last.op = "Dispatch"
      /\ last.reg = 0
      /\ last.v.typ \in DOMAIN latestH
      /\ last.mw = <<>>)
     => LET reg == latestH[last.v.typ]
        IN /\ ~last.res.panic
           /\ last.res.trace =
                Befores("typed", reg.mw) \o <<Event("H", reg.hid, last.v)>> \o Afters("typed", reg.mw)

\* a handler for T was registered and sealed, then replaced by another one
C3_Witness ==
  /\ last.op = "Dispatch"
  /\ last.reg = 0
  /\ last.mw = <<>>
  /\ last.v.typ \in DOMAIN latestH
  /\ \E i \in 1..Len(sealed) :
       /\ last.v.typ \in DOMAIN sealed[i].atH
       /\ sealed[i].atH[last.v.typ].hid # latestH[last.v.typ].hid
  /\ HEvents(last.res.trace) = <<Event("H", latestH[last.v.typ].hid, last.v)>>

\* ------------------------------------------------------------------ C4
\* C4: Dispatch with a list of cross-cutting middleware that all call next
\* enters them in list order, then runs the registered handler chain, then
\* leaves them in reverse list order: the first listed is outermost.
C4_CrossOrder ==
  (/\ last.op = "Dispatch"
   /\ AllPass(last.mw)
   /\ last.v.typ \in DOMAIN Registered(last.reg))
  => LET reg == Registered(last.reg)[last.v.typ]
         n == Len(last.mw)
         t == last.res.trace
     IN /\ Len(t) >= 2 * n
        /\ SubSeq(t, 1, n) = Befores("mw", last.mw)
        /\ SubSeq(t, Len(t) - n + 1, Len(t)) = Afters("mw", last.mw)
        /\ AllPass(reg.mw) =>
             SubSeq(t, n + 1, Len(t) - n) =
               Befores("typed", reg.mw) \o <<Event("H", reg.hid, last.v)>> \o Afters("typed", reg.mw)

\* [A, B] around a bare handler: A-before, B-before, H, B-after, A-after
C4_Witness ==
  /\ last.op = "Dispatch"
  /\ last.mw = <<Mw(1, "pass"), Mw(2, "pass")>>
  /\ last.v.typ \in DOMAIN latestH
  /\ last.res.trace =
       << Event("mw-before", 1, NoValue), Event("mw-before", 2, NoValue),
          Event("H", latestH[last.v.typ].hid, last.v),
          Event("mw-after", 2, NoValue), Event("mw-after", 1, NoValue) >>

C6_SealedAnswers ==
  /\ (/\ last.op = "Dispatch"
      /\ last.reg > 0
      /\ last.v.typ # NilType
      /\ last.mw = <<>>)
     => LET at == sealed[last.reg].atH
            typ == last.v.typ
        IN IF typ \in DOMAIN at
           THEN HEvents(last.res.trace) = <<Event("H", at[typ].hid, last.v)>>
           ELSE IF IsPtr(typ) /\ ElemType(typ) \in DOMAIN at
           THEN last.res.panic \/
                HEvents(last.res.trace) = <<Event("H", at[ElemType(typ)].hid, ElemValue(last.v))>>
           ELSE last.res.err = ErrHandlerNotFound(typ) /\ last.res.trace = <<>>
  /\ (last.op = "CreateType" /\ last.reg > 0)
     => LET at == sealed[last.reg].atF
        IN IF last.key \in DOMAIN at
           THEN \A i \in 1..Len(last.res.trace) : last.res.trace[i].id = at[last.key].cid
           ELSE last.res.err = ErrFactoryNotFound(last.key) /\ last.res.trace = <<>>

C6_SealedFrozen ==
  \A i \in 1..Len(sealed) :
    /\ i <= Len(sealed')
    /\ sealed'[i] = sealed[i]
    /\ MapOf(hmaps', sealed'[i].h) = MapOf(hmaps, sealed[i].h)
    /\ MapOf(fmaps', sealed'[i].f) = MapOf(fmaps, sealed[i].f)

\* C6: a sealed registry is frozen at its Seal call (both parts above).
C6_SealIsolation == [](C6_SealedAnswers) /\ [][C6_SealedFrozen]_vars

\* a handler registered after Seal: found by the mutable registry, not by the sealed one
C6_Witness ==
  /\ last.op = "Dispatch"
  /\ last.reg > 0
  /\ last.v.typ = 0
  /\ 0 \in DOMAIN latestH
  /\ DOMAIN sealed[last.reg].atH = {}
  /\ last.res.err = ErrHandlerNotFound(0)

\* ------------------------------------------------------------------ C7
\* C7: right after Seal, the new sealed registry and the mutable registry give
\* the same outcome for every dispatched value with every middleware list and
\* for every (key, data) pair.
C7_SealEquivalence ==
  (last.op = "Seal")
  => /\ \A v \in Values, mw \in CrossLists :
          DispatchResult(HandlersOf(last.reg), v, mw) = DispatchResult(HandlersOf(0), v, mw)
     /\ \A key \in Keys, d \in DataValues :
          CreateTypeResult(FactoriesOf(last.reg), key, d) = CreateTypeResult(FactoriesOf(0), key, d)

C7_Witness ==
  /\ last.op = "Seal"
  /\ DOMAIN HandlersOf(last.reg) # {}
  /\ DOMAIN FactoriesOf(last.reg) # {}
  /\ DOMAIN latestH # {}
  /\ DOMAIN latestF # {}

\* ------------------------------------------------------------------ C8
\* C8: Dispatch of a typed value whose type is not registered and, for a
\* pointer, whose element type is not registered either, returns
\* HandlerNotFound naming the value's type, runs no handler, and leaves every
\* map of the mutable and the sealed registries as it was.
C8_NotFound ==
  (/\ last.op = "Dispatch"
   /\ last.v.typ # NilType
   /\ last.v.typ \notin DOMAIN Registered(last.reg)
   /\ ~(IsPtr(last.v.typ) /\ ElemType(last.v.typ) \in DOMAIN Registered(last.reg)))
  => /\ ~last.res.panic
     /\ last.res.err = ErrHandlerNotFound(last.v.typ)
     /\ HEvents(last.res.trace) = <<>>

C8_DispatchReadsOnly ==
  (last'.op = "Dispatch") => UNCHANGED <<hmaps, rh, fmaps, rf, sealed>>

\* C8: unknown type dispatch is HandlerNotFound and changes no registry (both parts above).
C8_UnknownType == [](C8_NotFound) /\ [][C8_DispatchReadsOnly]_vars

\* a **T value with no handler for **T or *T, while T is registered
C8_Witness ==
  /\ last.op = "Dispatch"
  /\ last.v.typ = 2
  /\ DOMAIN Registered(last.reg) = {0}
  /\ last.res.err = ErrHandlerNotFound(2)

\* ------------------------------------------------------------------ C9
\* C9: CreateType with a key that has no registered factory returns the nil
\* value and FactoryNotFound naming the key, and runs no constructor.
C9_UnknownKey ==
  (/\ last.op = "CreateType"
   /\ last.key \notin DOMAIN RegisteredF(last.reg))
  => /\ ~last.res.panic
     /\ last.res.val = NilValue
     /\ last.res.err = ErrFactoryNotFound(last.key)
     /\ CEvents(last.res.trace) = <<>>

\* the other key is registered, the requested one is not
C9_Witness ==
  /\ last.op = "CreateType"
  /\ last.key = "k2"
  /\ DOMAIN RegisteredF(last.reg) = {"k1"}
  /\ last.res.err = ErrFactoryNotFound("k2")

\* ------------------------------------------------------------------ C10
\* C10 as stated: CreateType with a registered key and data whose runtime type
\* is not the constructor's declared input type returns DataTypeNotSupported
\* and does not run the constructor.
C10_GuardOnDifferentType ==
  (/\ last.op = "CreateType"
   /\ last.key \in DOMAIN RegisteredF(last.reg)
   /\ last.data.dtype # "nil"
   /\ last.data.dtype # RegisteredF(last.reg)[last.key].DATA)
  => /\ last.res.err.kind = "DataTypeNotSupported"
     /\ CEvents(last.res.trace) = <<>>

\* the dynamic types that satisfy a declared input type: the type itself, and
\* for the empty interface every type
Satisfies(dtype, DATA) == dtype # "nil" /\ (DATA = "any" \/ dtype = DATA)

\* C10 amended: CreateType with a registered key and data that does not
\* satisfy the constructor's declared input type (a different concrete type,
\* or a type not implementing a declared interface type, or the nil interface)
\* returns the nil value and DataTypeNotSupported and does not run the
\* constructor; data that satisfies it reaches the constructor once.
C10_DataTypeGuard ==
  (/\ last.op = "CreateType"
   /\ last.key \in DOMAIN RegisteredF(last.reg))
  => LET reg == RegisteredF(last.reg)[last.key]
     IN IF Satisfies(last.data.dtype, reg.DATA)
        THEN CEvents(last.res.trace) = <<Event("C", reg.cid, NoValue)>>
        ELSE /\ ~last.res.panic
             /\ last.res.val = NilValue
             /\ last.res.err = ErrDataTypeNotSupported(reg.DATA)
             /\ CEvents(last.res.trace) = <<>>

\* a string handed to a constructor that takes bytes
C10_Witness ==
  /\ last.op = "CreateType"
  /\ last.key \in DOMAIN RegisteredF(last.reg)
  /\ RegisteredF(last.reg)[last.key].DATA = "bytes"
  /\ last.data.dtype = "string"
  /\ last.res.err.kind = "DataTypeNotSupported"

\* ------------------------------------------------------------------ C11
\* C11: when the key is registered and the data satisfies the constructor's
\* declared input type, CreateType runs that constructor once and returns the
\* value and the error the constructor returned, unchanged: the decoded value
\* and nil, or the zero value the decoder left together with the decoder's own
\* error.
C11_ConstructorPassThrough ==
  (/\ last.op = "CreateType"
   /\ last.key \in DOMAIN RegisteredF(last.reg)
   /\ Satisfies(last.data.dtype, RegisteredF(last.reg)[last.key].DATA))
  => LET cid == RegisteredF(last.reg)[last.key].cid
     IN /\ ~last.res.panic
        /\ Len(last.res.trace) = 1
        /\ last.res.trace[1].e = "C"
        /\ last.res.trace[1].id = cid
        /\ IF last.data.payload = 2
           THEN /\ last.res.err = ErrUser("constructor", cid)
                /\ last.res.val = [typ |-> 0, nilAt |-> 0, data |-> 0]
           ELSE /\ last.res.err = NoErr
                /\ last.res.val = [typ |-> 0, nilAt |-> 0, data |-> last.data.payload]

\* bytes that do not decode: the constructor's error and value come back
C11_Witness ==
  /\ last.op = "CreateType"
  /\ last.data = [dtype |-> "bytes", payload |-> 2]
  /\ last.key \in DOMAIN RegisteredF(last.reg)
  /\ last.res.err.kind = "constructor"
  /\ last.res.val.typ = 0

\* ------------------------------------------------------------------ C12
\* C12: a RegisterFactory call always takes effect, and CreateType for key K
\* - on the mutable registry and on a registry sealed after the calls - runs
\* no constructor other than the one of the most recent RegisterFactory for K.
C12_FactoryLastWriteWins ==
  /\ (last.op = "RegisterFactory") =>
       /\ last.key \in DOMAIN FactoriesOf(0)
       /\ FactoriesOf(0)[last.key].cid = latestF[last.key].cid
       /\ FactoriesOf(0)[last.key].DATA = latestF[last.key].DATA
  /\ (last.op = "CreateType" /\ last.key \in DOMAIN RegisteredF(last.reg))
     => LET reg == RegisteredF(last.reg)[last.key]
        IN /\ \A i \in 1..Len(last.res.trace) :
                last.res.trace[i].e = "C" => last.res.trace[i].id = reg.cid
           /\ last.res.err.kind = "DataTypeNotSupported" => last.res.err = ErrDataTypeNotSupported(reg.DATA)
           /\ Len(CEvents(last.res.trace)) <= 1

\* a sealed registry made after a constructor was replaced runs the replacement
C12_Witness ==
  /\ last.op = "CreateType"
  /\ last.reg > 0
  /\ last.key \in DOMAIN sealed[last.reg].atF
  /\ sealed[last.reg].atF[last.key].old # {}
  /\ sealed[last.reg].atF[last.key].cid \notin sealed[last.reg].atF[last.key].old
  /\ CEvents(last.res.trace) = <<Event("C", sealed[last.reg].atF[last.key].cid, NoValue)>>

\* ------------------------------------------------------------------ C13
\* the first middleware of a list that returns without calling next (0: none)
FirstBlock(middleware) ==
  IF AllPass(middleware) THEN 0
  ELSE CHOOSE i \in 1..Len(middleware) :
         /\ middleware[i].kind = "block"
         /\ \A j \in 1..(i - 1) : middleware[j].kind = "pass"

Prefix(q, n) == [i \in 1..n |-> q[i]]

\* C13: with a registered exact-type handler, (a) when every cross-cutting and
\* typed middleware calls next, Dispatch returns what the handler returned;
\* (b) when a cross-cutting middleware returns its error without calling
\* next, nothing inside it runs - no later cross-cutting middleware, no typed
\* middleware, no handler - and Dispatch returns that error; (c) likewise for
\* a typed middleware: no later typed middleware and no handler run.
C13_ErrorPassThrough ==
  (/\ last.op = "Dispatch"
   /\ last.v.typ \in DOMAIN Registered(last.reg))
  => LET reg == Registered(last.reg)[last.v.typ]
         cb == FirstBlock(last.mw)
         tb == FirstBlock(reg.mw)
         t == last.res.trace
     IN /\ ~last.res.panic
        /\ (cb = 0 /\ tb = 0) =>
             /\ last.res.err = (IF reg.hid \in FailingHandlers THEN ErrUser("handler", reg.hid) ELSE NoErr)
             /\ HEvents(t) = <<Event("H", reg.hid, last.v)>>
        /\ (cb > 0) =>
             /\ last.res.err = ErrUser("middleware", last.mw[cb].id)
             /\ t = Befores("mw", Prefix(last.mw, cb)) \o Afters("mw", Prefix(last.mw, cb - 1))
        /\ (cb = 0 /\ tb > 0) =>
             /\ last.res.err = ErrUser("middleware", reg.mw[tb].id)
             /\ t = Befores("mw", last.mw) \o Befores("typed", Prefix(reg.mw, tb))
                    \o Afters("typed", Prefix(reg.mw, tb - 1)) \o Afters("mw", last.mw)

\* a failing handler behind passing middleware: its error is what Dispatch returns
C13_Witness ==
  /\ last.op = "Dispatch"
  /\ last.v.typ \in DOMAIN latestH
  /\ latestH[last.v.typ].hid \in FailingHandlers
  /\ Len(last.mw) = 2
  /\ AllPass(last.mw)
  /\ Len(latestH[last.v.typ].mw) > 0
  /\ AllPass(latestH[last.v.typ].mw)
  /\ last.res.err = ErrUser("handler", latestH[last.v.typ].hid)

\* ------------------------------------------------------------------ C14
\* C14: no Dispatch and no CreateType call faults: Dispatch returns the
\* handler chain's result or HandlerNotFound - also for a nil *T with only a T
\* handler registered and for the untyped nil - and CreateType returns a value
\* or a typed error.
C14_NeverPanics ==
  /\ (last.op \in {"Dispatch", "CreateType"}) => ~last.res.panic
  /\ (last.op = "Dispatch" /\ last.v = NilValue /\ last.mw = <<>>)
       => last.res.err.kind = "HandlerNotFound"
  /\ (last.op = "CreateType" /\ last.key \in DOMAIN RegisteredF(last.reg)
        /\ ~Satisfies(last.data.dtype, RegisteredF(last.reg)[last.key].DATA))
       => last.res.err.kind = "DataTypeNotSupported"

\* ------------------------------------------------------------------ the registry under concurrent callers
\* Handler bodies are user code.  Besides the handlers that only return,
\* handler 4 calls RegisterDispatch on the registry it is registered in and
\* handler 5 calls Dispatch on it (with a value no handler matches).
RegistersInHandler == {4}
DispatchesInHandler == {5}
ConcHandlers == {1, 4, 5}
ConcValue == [typ |-> 0, nilAt |-> 0, data |-> 1]
NestedValue == [typ |-> 2, nilAt |-> 0, data |-> 1]
ConcData == [dtype |-> "bytes", payload |-> 1]

\* Constructors are user code too: constructor 4 calls RegisterFactory on the
\* registry it is registered in, constructor 5 calls CreateType on it (with
\* a key that has no factory)
RegistersInConstructor == {4}
CreatesInConstructor == {5}
ConcConstructors == {1, 4, 5}

\* the goroutines of the program under test: one registers, two dispatch; the
\* first dispatcher also seals, the second also creates
Registrars == {1}
Dispatchers == {2, 3}
Sealers == {2}
MwDispatchers == {2}
Creators == {3}

\* sync.RWMutex
CanRLock_ignoresWriter(m) == TRUE

\* RLock proceeds unless a writer holds the lock or has announced itself
CanRLock(m) == m.w = 0

\* Lock first takes the writers' mutex: one announced writer at a time
CanAnnounce(m) == m.w = 0

Drained_ignoresReaders(m) == TRUE

\* the announced writer proceeds once every read lock is released
Drained(m) == \A u \in Threads : m.r[u] = 0

RLocked(m, t) == [m EXCEPT !.r[t] = @ + 1]
RUnlocked(m, t) == [m EXCEPT !.r[t] = @ - 1]
Announced(m, t) == [m EXCEPT !.w = t]
Unlocked(m) == [m EXCEPT !.w = 0]

\* every Seal in progress sees the maps the mutable registry now has
Observe(ths, hm, fm) ==
  [u \in Threads |->
     IF ths[u].op = "Seal" /\ ths[u].pc # "idle"
     THEN [ths[u] EXCEPT !.seen = @ \cup {<<hm, fm>>}] ELSE ths[u]]

\* --- RegisterDispatch, called by a goroutine or by handler 4
StartRegisterDispatch(t, typ, hid) ==
  /\ th[t].pc = "idle"
  /\ nops < MaxOps
  /\ nops' = nops + 1
  /\ th' = [th EXCEPT ![t] = [IdleThread EXCEPT !.pc = "reg_lock", !.op = "RegisterDispatch",
                                               !.v = [NoValue EXCEPT !.typ = typ], !.hid = hid]]
  /\ UNCHANGED <<hmaps, rh, fmaps, rf, sealed, latestH, latestF, last, mu>>

\* r.mu.Lock(), first half: take the writers' mutex and announce
RegLock(t) ==
  /\ th[t].pc = "reg_lock"
  /\ CanAnnounce(mu.h)
  /\ mu' = [mu EXCEPT !.h = Announced(@, t)]
  /\ th' = [th EXCEPT ![t].pc = "reg_drain"]
  /\ UNCHANGED <<hmaps, rh, fmaps, rf, sealed, latestH, latestF, nops, last>>

\* r.mu.Lock(), second half: wait until the readers are gone
RegDrain(t) ==
  /\ th[t].pc = "reg_drain"
  /\ Drained(mu.h)
  /\ th' = [th EXCEPT ![t].pc = "reg_write"]
  /\ UNCHANGED <<hmaps, rh, fmaps, rf, sealed, latestH, latestF, nops, last, mu>>

\* r.h[typ] = funcAny under the write lock, then the deferred Unlock
RegWrite(t) ==
  /\ th[t].pc = "reg_write"
  /\ LET typ == IF th[t].op = "RegisterDispatch" THEN th[t].v.typ ELSE 0
         hid == IF th[t].op = "RegisterDispatch" THEN th[t].hid ELSE 1
         entry == [typ |-> typ, hid |-> hid, chain |-> applyMiddleware(<<>>)]
         id == Ensure(hmaps, rh)
         heap == [EnsureHeap(hmaps, rh) EXCEPT ![id] = MapPut(@, typ, entry)]
     IN /\ rh' = id
        /\ hmaps' = heap
        /\ latestH' = [x \in (DOMAIN latestH) \cup {typ} |->
                         IF x = typ THEN [hid |-> hid, mw |-> <<>>] ELSE latestH[x]]
        /\ th' = Observe([th EXCEPT ![t] = IF th[t].ret = "idle" THEN IdleThread
                                               ELSE [@ EXCEPT !.pc = th[t].ret, !.ret = "idle"]],
                         heap[id], FactoriesOf(0))
  /\ mu' = [mu EXCEPT !.h = Unlocked(@)]
  /\ UNCHANGED <<fmaps, rf, sealed, latestF, nops, last>>

\* --- RegisterFactory
StartRegisterFactory(t, key, DATA, cid) ==
  /\ th[t].pc = "idle"
  /\ nops < MaxOps
  /\ nops' = nops + 1
  /\ th' = [th EXCEPT ![t] = [IdleThread EXCEPT !.pc = "fac_lock", !.op = "RegisterFactory",
                                               !.key = key, !.hid = cid,
                                               !.data = [dtype |-> DATA, payload |-> 0]]]
  /\ UNCHANGED <<hmaps, rh, fmaps, rf, sealed, latestH, latestF, last, mu>>

FacLock(t) ==
  /\ th[t].pc = "fac_lock"
  /\ CanAnnounce(mu.f)
  /\ mu' = [mu EXCEPT !.f = Announced(@, t)]
  /\ th' = [th EXCEPT ![t].pc = "fac_drain"]
  /\ UNCHANGED <<hmaps, rh, fmaps, rf, sealed, latestH, latestF, nops, last>>

FacDrain(t) ==
  /\ th[t].pc = "fac_drain"
  /\ Drained(mu.f)
  /\ th' = [th EXCEPT ![t].pc = "fac_write"]
  /\ UNCHANGED <<hmaps, rh, fmaps, rf, sealed, latestH, latestF, nops, last, mu>>

\* r.factories[key] = factory under the write lock, then the deferred Unlock
FacWrite(t) ==
  /\ th[t].pc = "fac_write"
  /\ LET key == IF th[t].op = "RegisterFactory" THEN th[t].key ELSE "k1"
         entry == IF th[t].op = "RegisterFactory"
                  THEN [DATA |-> th[t].data.dtype, cid |-> th[t].hid]
                  ELSE [DATA |-> "bytes", cid |-> 1]
         id == Ensure(fmaps, rf)
         heap == [EnsureHeap(fmaps, rf) EXCEPT ![id] = MapPut(@, key, entry)]
     IN /\ rf' = id
        /\ fmaps' = heap
        /\ latestF' = [x \in (DOMAIN latestF) \cup {key} |->
                         IF x = key
                         THEN [DATA |-> entry.DATA, cid |-> entry.cid,
                               old |-> IF key \in DOMAIN latestF
                                       THEN latestF[key].old \cup {latestF[key].cid} ELSE {}]
                         ELSE latestF[x]]
        /\ th' = Observe([th EXCEPT ![t] = IF th[t].ret = "idle" THEN IdleThread
                                               ELSE [@ EXCEPT !.pc = th[t].ret, !.ret = "idle"]],
                         HandlersOf(0), heap[id])
  /\ mu' = [mu EXCEPT !.f = Unlocked(@)]
  /\ UNCHANGED <<hmaps, rh, sealed, latestH, nops, last>>

\* --- Dispatch without middleware, on the mutable (reg = 0) or a sealed registry
StartDispatch(t, reg, v) ==
  /\ th[t].pc = "idle"
  /\ th' = [th EXCEPT ![t] = [IdleThread EXCEPT !.pc = IF reg = 0 THEN "d_rlock" ELSE "d_lookup",
                                               !.op = "Dispatch", !.reg = reg, !.v = v]]
  /\ UNCHANGED <<hmaps, rh, fmaps, rf, sealed, latestH, latestF, nops, last, mu>>

\* (*DispatchRegistry).call: r.mu.RLock()
DRLock(t) ==
  /\ th[t].pc = "d_rlock"
  /\ CanRLock(mu.h)
  /\ mu' = [mu EXCEPT !.h = RLocked(@, t)]
  /\ th' = [th EXCEPT ![t].pc = "d_lookup"]
  /\ UNCHANGED <<hmaps, rh, fmaps, rf, sealed, latestH, latestF, nops, last>>

\* call(typ, ctx, v, h): the handler is resolved and entered
DLookup(t) ==
  /\ th[t].pc = "d_lookup"
  /\ LET res == DispatchResult(HandlersOf(th[t].reg), th[t].v, <<>>)
         hs == HEvents(res.trace)
     IN th' = [th EXCEPT ![t].res = res,
                         ![t].hid = IF hs = <<>> THEN 0 ELSE hs[1].id,
                         ![t].pc = IF hs = <<>> THEN "d_ret" ELSE "d_handler"]
  /\ UNCHANGED <<hmaps, rh, fmaps, rf, sealed, latestH, latestF, nops, last, mu>>

\* the handler body runs inside call: it returns, or calls back into the registry
DHandler(t) ==
  /\ th[t].pc = "d_handler"
  /\ th' = [th EXCEPT ![t].pc = IF th[t].hid \in RegistersInHandler THEN "reg_lock"
                                ELSE IF th[t].hid \in DispatchesInHandler THEN "n_rlock"
                                ELSE "d_ret",
                      ![t].ret = IF th[t].hid \in RegistersInHandler THEN "d_ret" ELSE "idle"]
  /\ UNCHANGED <<hmaps, rh, fmaps, rf, sealed, latestH, latestF, nops, last, mu>>

\* handler 5's Dispatch on the mutable registry: RLock
NRLock(t) ==
  /\ th[t].pc = "n_rlock"
  /\ CanRLock(mu.h)
  /\ mu' = [mu EXCEPT !.h = RLocked(@, t)]
  /\ th' = [th EXCEPT ![t].pc = "n_lookup"]
  /\ UNCHANGED <<hmaps, rh, fmaps, rf, sealed, latestH, latestF, nops, last>>

\* handler 5's Dispatch: call, then the deferred RUnlock; its result is dropped
NLookup(t) ==
  /\ th[t].pc = "n_lookup"
  /\ ~call(TypeOf(NestedValue), NestedValue, HandlersOf(0)).panic
  /\ mu' = [mu EXCEPT !.h = RUnlocked(@, t)]
  /\ th' = [th EXCEPT ![t].pc = "d_ret"]
  /\ UNCHANGED <<hmaps, rh, fmaps, rf, sealed, latestH, latestF, nops, last>>

\* the handler has returned: the deferred r.mu.RUnlock() of the mutable
\* registry's call (a sealed registry has no lock), and Dispatch returns (to
\* the innermost middleware when it was called as its next)
DRet(t) ==
  /\ th[t].pc = "d_ret"
  /\ mu' = IF th[t].reg = 0 THEN [mu EXCEPT !.h = RUnlocked(@, t)] ELSE mu
  /\ th' = [th EXCEPT ![t] = IF th[t].op = "DispatchMw" THEN [@ EXCEPT !.pc = "m_after"]
                              ELSE IdleThread]
  /\ UNCHANGED <<hmaps, rh, fmaps, rf, sealed, latestH, latestF, nops, last>>

\* --- (*Registry).Seal
StartSeal(t) ==
  /\ th[t].pc = "idle"
  /\ nops < MaxOps
  /\ nops' = nops + 1
  /\ th' = [th EXCEPT ![t] = [IdleThread EXCEPT !.pc = "s_rlock_h", !.op = "Seal",
                                               !.seen = {<<HandlersOf(0), FactoriesOf(0)>>}]]
  /\ UNCHANGED <<hmaps, rh, fmaps, rf, sealed, latestH, latestF, last, mu>>

\* (*DispatchRegistry).Seal: r.mu.RLock()
SealRLockH(t) ==
  /\ th[t].pc = "s_rlock_h"
  /\ CanRLock(mu.h)
  /\ mu' = [mu EXCEPT !.h = RLocked(@, t)]
  /\ th' = [th EXCEPT ![t].pc = "s_copy_h"]
  /\ UNCHANGED <<hmaps, rh, fmaps, rf, sealed, latestH, latestF, nops, last>>

\* (*DispatchRegistry).Seal: maps.Clone(r.h), then the deferred RUnlock
SealCopyH(t) ==
  /\ th[t].pc = "s_copy_h"
  /\ hmaps' = CloneHeap(hmaps, rh)
  /\ mu' = [mu EXCEPT !.h = RUnlocked(@, t)]
  /\ th' = [th EXCEPT ![t].pc = "s_rlock_f", ![t].hcopy = CloneTarget(hmaps, rh),
                      ![t].atH = latestH]
  /\ UNCHANGED <<rh, fmaps, rf, sealed, latestH, latestF, nops, last>>

\* (*FactoryRegistry).Seal: r.mu.RLock()
SealRLockF(t) ==
  /\ th[t].pc = "s_rlock_f"
  /\ CanRLock(mu.f)
  /\ mu' = [mu EXCEPT !.f = RLocked(@, t)]
  /\ th' = [th EXCEPT ![t].pc = "s_copy_f"]
  /\ UNCHANGED <<hmaps, rh, fmaps, rf, sealed, latestH, latestF, nops, last>>

\* (*FactoryRegistry).Seal: maps.Clone(r.factories), the deferred RUnlock, and
\* (*Registry).Seal returns the SealedRegistry
SealCopyF(t) ==
  /\ th[t].pc = "s_copy_f"
  /\ fmaps' = CloneHeap(fmaps, rf)
  /\ sealed' = Append(sealed, [h |-> th[t].hcopy, f |-> CloneTarget(fmaps, rf),
                               atH |-> th[t].atH, atF |-> latestF])
  /\ mu' = [mu EXCEPT !.f = RUnlocked(@, t)]
  /\ th' = [th EXCEPT ![t] = [IdleThread EXCEPT
                 !.joint = (<<MapOf(hmaps, th[t].hcopy), FactoriesOf(0)>> \in th[t].seen)]]
  /\ UNCHANGED <<hmaps, rh, rf, latestH, latestF, nops, last>>

\* --- CreateType
StartCreateType(t, reg, key, d) ==
  /\ th[t].pc = "idle"
  /\ th' = [th EXCEPT ![t] = [IdleThread EXCEPT !.pc = IF reg = 0 THEN "c_rlock" ELSE "c_get",
                                               !.op = "CreateType", !.reg = reg,
                                               !.key = key, !.data = d]]
  /\ UNCHANGED <<hmaps, rh, fmaps, rf, sealed, latestH, latestF, nops, last, mu>>

\* (*FactoryRegistry).getFactory: r.mu.RLock()
CRLock(t) ==
  /\ th[t].pc = "c_rlock"
  /\ CanRLock(mu.f)
  /\ mu' = [mu EXCEPT !.f = RLocked(@, t)]
  /\ th' = [th EXCEPT ![t].pc = "c_get"]
  /\ UNCHANGED <<hmaps, rh, fmaps, rf, sealed, latestH, latestF, nops, last>>

\* getFactory: the map read and, on the mutable registry, the deferred RUnlock;
\* the closure found is what CreateType goes on to run
CGet_keepsLock(t) ==
  /\ th[t].pc = "c_get"
  /\ mu' = mu
  /\ th' = [th EXCEPT ![t].pc = "c_ctor",
                      ![t].res = CreateTypeResult(FactoriesOf(th[t].reg), th[t].key, th[t].data)]
  /\ UNCHANGED <<hmaps, rh, fmaps, rf, sealed, latestH, latestF, nops, last>>

CGet(t) ==
  /\ th[t].pc = "c_get"
  /\ mu' = IF th[t].reg = 0 THEN [mu EXCEPT !.f = RUnlocked(@, t)] ELSE mu
  /\ LET res == CreateTypeResult(FactoriesOf(th[t].reg), th[t].key, th[t].data)
         cs == CEvents(res.trace)
     IN th' = [th EXCEPT ![t].pc = "c_ctor", ![t].res = res,
                         ![t].hid = IF cs = <<>> THEN 0 ELSE cs[1].id]
  /\ UNCHANGED <<hmaps, rh, fmaps, rf, sealed, latestH, latestF, nops, last>>

\* factory(data) runs: the constructor returns, or calls back into the
\* mutable registry first (not found, or the type guard failed: CreateType
\* returns at once)
CCtor(t) ==
  /\ th[t].pc = "c_ctor"
  /\ th' = [th EXCEPT ![t] = IF th[t].hid \in RegistersInConstructor
                              THEN [@ EXCEPT !.pc = "fac_lock", !.ret = "c_ret"]
                              ELSE IF th[t].hid \in CreatesInConstructor
                              THEN [@ EXCEPT !.pc = "nc_rlock"]
                              ELSE IdleThread]
  /\ UNCHANGED <<hmaps, rh, fmaps, rf, sealed, latestH, latestF, nops, last, mu>>

\* constructor 5's CreateType on the mutable registry: getFactory's RLock
NCRLock(t) ==
  /\ th[t].pc = "nc_rlock"
  /\ CanRLock(mu.f)
  /\ mu' = [mu EXCEPT !.f = RLocked(@, t)]
  /\ th' = [th EXCEPT ![t].pc = "nc_get"]
  /\ UNCHANGED <<hmaps, rh, fmaps, rf, sealed, latestH, latestF, nops, last>>

\* constructor 5's CreateType: the map read and the deferred RUnlock; the key
\* it asks for has no factory, so it returns FactoryNotFound to the constructor
NCGet(t) ==
  /\ th[t].pc = "nc_get"
  /\ CreateTypeResult(FactoriesOf(0), "k2", ConcData).err = ErrFactoryNotFound("k2")
  /\ mu' = [mu EXCEPT !.f = RUnlocked(@, t)]
  /\ th' = [th EXCEPT ![t].pc = "c_ret"]
  /\ UNCHANGED <<hmaps, rh, fmaps, rf, sealed, latestH, latestF, nops, last>>

\* the constructor has returned and CreateType returns its value and error
CRet(t) ==
  /\ th[t].pc = "c_ret"
  /\ th' = [th EXCEPT ![t] = IdleThread]
  /\ UNCHANGED <<hmaps, rh, fmaps, rf, sealed, latestH, latestF, nops, last, mu>>

\* --- Dispatch with one cross-cutting middleware that calls RegisterDispatch
\* on the mutable registry and then next
StartDispatchMw_locksFirst(t, v) ==
  /\ th[t].pc = "idle"
  /\ nops < MaxOps
  /\ nops' = nops + 1
  /\ CanRLock(mu.h)
  /\ mu' = [mu EXCEPT !.h = RLocked(@, t)]
  /\ th' = [th EXCEPT ![t] = [IdleThread EXCEPT !.pc = "m_before", !.op = "DispatchMw", !.v = v]]
  /\ UNCHANGED <<hmaps, rh, fmaps, rf, sealed, latestH, latestF, last>>

\* Dispatch builds the closures and calls the outermost: the middleware body
\* starts (a mutating call: the middleware registers)
StartDispatchMw(t, v) ==
  /\ th[t].pc = "idle"
  /\ nops < MaxOps
  /\ nops' = nops + 1
  /\ th' = [th EXCEPT ![t] = [IdleThread EXCEPT !.pc = "m_before", !.op = "DispatchMw", !.v = v]]
  /\ UNCHANGED <<hmaps, rh, fmaps, rf, sealed, latestH, latestF, last, mu>>

\* the middleware calls RegisterDispatch
MwBefore(t) ==
  /\ th[t].pc = "m_before"
  /\ th' = [th EXCEPT ![t].pc = "reg_lock", ![t].ret = "m_next"]
  /\ UNCHANGED <<hmaps, rh, fmaps, rf, sealed, latestH, latestF, nops, last, mu>>

\* the middleware calls next: disp.call(typ, ctx, v)
MwNext(t) ==
  /\ th[t].pc = "m_next"
  /\ th' = [th EXCEPT ![t].pc = "d_rlock"]
  /\ UNCHANGED <<hmaps, rh, fmaps, rf, sealed, latestH, latestF, nops, last, mu>>

\* next has returned; the middleware returns and so does Dispatch
MwAfter(t) ==
  /\ th[t].pc = "m_after"
  /\ th' = [th EXCEPT ![t] = IdleThread]
  /\ UNCHANGED <<hmaps, rh, fmaps, rf, sealed, latestH, latestF, nops, last, mu>>

NextConc ==
  \E t \in Threads :
    \/ \E hid \in ConcHandlers : t \in Registrars /\ StartRegisterDispatch(t, 0, hid)
    \/ RegLock(t)
    \/ RegDrain(t)
    \/ RegWrite(t)
    \/ \E cid \in ConcConstructors : t \in Registrars /\ StartRegisterFactory(t, "k1", "bytes", cid)
    \/ FacLock(t)
    \/ FacDrain(t)
    \/ FacWrite(t)
    \/ \E reg \in 0..Len(sealed) : t \in Dispatchers /\ StartDispatch(t, reg, ConcValue)
    \/ DRLock(t)
    \/ DLookup(t)
    \/ DHandler(t)
    \/ NRLock(t)
    \/ NLookup(t)
    \/ DRet(t)
    \/ t \in Sealers /\ StartSeal(t)
    \/ SealRLockH(t)
    \/ SealCopyH(t)
    \/ SealRLockF(t)
    \/ SealCopyF(t)
    \/ t \in Creators /\ StartCreateType(t, 0, "k1", ConcData)
    \/ CRLock(t)
    \/ CGet(t)
    \/ CCtor(t)
    \/ NCRLock(t)
    \/ NCGet(t)
    \/ CRet(t)
    \/ t \in MwDispatchers /\ StartDispatchMw(t, ConcValue)
    \/ MwBefore(t)
    \/ MwNext(t)
    \/ MwAfter(t)

SpecConc == Init /\ [][NextConc]_vars

\* ------------------------------------------------------------------ claims about concurrent callers
\* thread t holds the dispatch registry's read lock
HoldsRLockH(t) == mu.h.r[t] > 0

\* thread t is the announced writer of the dispatch registry, waiting for the
\* read locks to be released
DrainingH(t) == th[t].pc = "reg_drain" /\ mu.h.w = t

\* C15: no operation blocks indefinitely.  Stated in the form a finite run
\* refutes: no reachable state holds a call that can never return, that is a
\* registration waiting for a read lock its own thread holds (a handler that
\* calls RegisterDispatch on its registry), or a handler's call into the
\* registry waiting behind a writer that waits for this handler's read lock.
C15_NoCallStuck ==
  \A t \in Threads :
    /\ ~(DrainingH(t) /\ HoldsRLockH(t))
    /\ ~(/\ th[t].pc \in {"n_rlock", "reg_lock"}
         /\ HoldsRLockH(t)
         /\ mu.h.w # 0
         /\ DrainingH(mu.h.w))

\* C16: the dispatch registry's lock is not held while a handler body runs, so
\* a RegisterDispatch never waits for another thread's running handler.
C16_RegistrationNeverWaitsForHandler ==
  \A t \in Threads : \A u \in Threads \ {t} :
    ~(DrainingH(t) /\ th[u].pc = "d_handler" /\ HoldsRLockH(u))

\* C17: a Dispatch on the mutable registry never waits for another Dispatch to
\* finish, also while a registration waits for the write lock: no Dispatch
\* stands at RLock behind a writer that waits for another Dispatch whose
\* handler is running.
C17_DispatchNeverWaitsForDispatch ==
  \A t \in Threads : \A u \in Threads \ {t} :
    ~(/\ th[t].op = "Dispatch"
      /\ th[t].pc = "d_rlock"
      /\ mu.h.w # 0
      /\ DrainingH(mu.h.w)
      /\ th[u].op = "Dispatch"
      /\ th[u].pc = "d_handler"
      /\ HoldsRLockH(u))

\* thread u reads or writes the mutable handler map / factory map
UsesH(u) ==
  \/ th[u].pc \in {"reg_write", "n_lookup", "s_copy_h"}
  \/ th[u].pc = "d_lookup" /\ th[u].reg = 0
UsesF(u) ==
  \/ th[u].pc \in {"fac_write", "s_copy_f"}
  \/ th[u].pc = "c_get" /\ th[u].reg = 0

\* C18: while a registration writes a mutable map, no other registration,
\* lookup, handler resolution or Seal copy of that map is in progress.
C18_Exclusion ==
  \A t \in Threads : \A u \in Threads \ {t} :
    /\ (th[t].pc = "reg_write") => ~UsesH(u)
    /\ (th[t].pc = "fac_write") => ~UsesF(u)

\* a handler write is under way while a reader and another writer wait for it;
\* a factory write is under way while a reader waits for it
C18_Witness ==
  \/ /\ th[1].pc = "reg_write"
     /\ th[2].pc = "reg_lock"
     /\ th[3].pc = "d_rlock"
  \/ /\ th[1].pc = "fac_write"
     /\ th[2].pc = "s_rlock_f"
     /\ th[3].pc = "c_rlock"

\* C19: a finished composite Seal returned the two maps the mutable registry
\* held together at one instant of the Seal call.
C19_JointSnapshot == \A t \in Threads : th[t].joint

\* the outcome of Dispatch(reg, v) run alone on what was registered in reg
AloneOutcome(reg, v, res) ==
  /\ ~res.panic
  /\ IF v.typ \in DOMAIN Registered(reg)
     THEN /\ HEvents(res.trace) = <<Event("H", Registered(reg)[v.typ].hid, v)>>
          /\ res.err = NoErr
     ELSE /\ HEvents(res.trace) = <<>>
          /\ res.err = ErrHandlerNotFound(v.typ)

\* thread t is in a Dispatch of its own (not in a registration its handler started)
InDispatch(t) ==
  /\ th[t].op = "Dispatch"
  /\ th[t].pc \in {"d_rlock", "d_lookup", "d_handler", "n_rlock", "n_lookup", "d_ret"}

\* C20: concurrent Dispatch calls on a sealed registry (or on a mutable one
\* that no writer is at) are never made to wait, write none of the registry's
\* maps, and each has the outcome of the same call run alone.
C20_ConcurrentReads ==
  /\ [](\A t \in Threads :
          /\ (InDispatch(t) /\ th[t].res # NoResult)
               => AloneOutcome(th[t].reg, th[t].v, th[t].res)
          /\ (/\ InDispatch(t)
              /\ th[t].reg > 0
              /\ th[t].hid \notin RegistersInHandler \cup DispatchesInHandler)
               => /\ th[t].pc \in {"d_lookup", "d_handler", "d_ret"}
                  /\ ~HoldsRLockH(t)
                  /\ ENABLED (DLookup(t) \/ DHandler(t) \/ DRet(t))
          /\ (InDispatch(t) /\ th[t].pc = "d_rlock" /\ mu.h.w = 0) => ENABLED DRLock(t))
  /\ [][\A t \in Threads :
          (InDispatch(t) /\ th'[t] # th[t])
            => UNCHANGED <<hmaps, rh, fmaps, rf, sealed>>]_vars

\* two Dispatch calls are inside one sealed registry at once, past their
\* lookup, with a handler the mutable registry has replaced since the seal
C20_Witness ==
  /\ th[2].op = "Dispatch" /\ th[3].op = "Dispatch"
  /\ th[2].reg > 0 /\ th[3].reg = th[2].reg
  /\ th[2].pc = "d_handler" /\ th[3].pc = "d_ret"
  /\ 0 \in DOMAIN sealed[th[2].reg].atH
  /\ latestH[0].hid # sealed[th[2].reg].atH[0].hid

\* ------------------------------------------------------------------ C21
\* the handler map / factory map behind a handle holds exactly the recorded registrations
HoldsH(m, rec) ==
  /\ DOMAIN m = DOMAIN rec
  /\ \A typ \in DOMAIN m :
       /\ m[typ].hid = rec[typ].hid
       /\ m[typ].chain = rec[typ].mw
HoldsF(m, rec) ==
  /\ DOMAIN m = DOMAIN rec
  /\ \A key \in DOMAIN m :
       /\ m[key].cid = rec[key].cid
       /\ m[key].DATA = rec[key].DATA

\* every sealed registry still holds what was registered before its own Seal
\* call, and the mutable registry holds every registration made so far,
\* those made after a Seal included
C21_EachAtItsTime ==
  /\ HoldsH(HandlersOf(0), latestH)
  /\ HoldsF(FactoriesOf(0), latestF)
  /\ \A i \in 1..Len(sealed) :
       /\ HoldsH(HandlersOf(i), sealed[i].atH)
       /\ HoldsF(FactoriesOf(i), sealed[i].atF)

\* a Seal step leaves both maps of the mutable registry as they were
C21_SealLeavesOriginal ==
  (last'.op = "Seal" /\ last' # last)
  => /\ MapOf(hmaps', rh') = MapOf(hmaps, rh)
     /\ MapOf(fmaps', rf') = MapOf(fmaps, rf)

\* C21: Seal changes neither map of the mutable registry, the mutable registry
\* keeps taking registrations afterwards, and successive Seal calls give
\* independent snapshots, each holding the contents at its own call.
C21_SealOneDirectional == [](C21_EachAtItsTime) /\ [][C21_SealLeavesOriginal]_vars

\* two seals with a registration in between: the first snapshot is empty, the
\* second holds the handler
C21_Witness ==
  /\ last.op = "Seal"
  /\ Len(sealed) = 2
  /\ DOMAIN HandlersOf(1) = {}
  /\ DOMAIN HandlersOf(2) # {}
  /\ HandlersOf(0) = HandlersOf(2)

\* ------------------------------------------------------------------ C22
\* map m2 is map m1 with at most the entry of k changed
OnlyEntryChanged(m1, m2, k) ==
  /\ DOMAIN m2 = (DOMAIN m1) \cup {k}
  /\ \A x \in (DOMAIN m1) \ {k} : m2[x] = m1[x]

\* no sealed registry's maps change
SealedMapsKept ==
  \A i \in 1..Len(sealed) :
    /\ MapOf(hmaps', sealed'[i].h) = MapOf(hmaps, sealed[i].h)
    /\ MapOf(fmaps', sealed'[i].f) = MapOf(fmaps, sealed[i].f)

C22_Frames ==
  /\ (last'.op = "RegisterDispatch" /\ nops' # nops)
     => /\ OnlyEntryChanged(MapOf(hmaps, rh), MapOf(hmaps', rh'), last'.v.typ)
        /\ MapOf(fmaps', rf') = MapOf(fmaps, rf)
        /\ SealedMapsKept
  /\ (last'.op = "RegisterFactory" /\ nops' # nops)
     => /\ OnlyEntryChanged(MapOf(fmaps, rf), MapOf(fmaps', rf'), last'.key)
        /\ MapOf(hmaps', rh') = MapOf(hmaps, rh)
        /\ SealedMapsKept
  /\ (last'.op \in {"Dispatch", "CreateType"} /\ nops' = nops)
     => /\ MapOf(hmaps', rh') = MapOf(hmaps, rh)
        /\ MapOf(fmaps', rf') = MapOf(fmaps, rf)
        /\ SealedMapsKept

\* C22: RegisterDispatch for type T changes only the handler entry of T,
\* RegisterFactory for key K only the factory entry of K, and Dispatch and
\* CreateType change neither map.
C22_Independence == [][C22_Frames]_vars

\* a handler registered into a registry that holds another handler and a factory
C22_Witness ==
  /\ last.op = "RegisterDispatch"
  /\ DOMAIN HandlersOf(0) = {0, 1}
  /\ DOMAIN FactoriesOf(0) # {}

\* ------------------------------------------------------------------ C23
\* C23: on a registry constructed as a zero value, the first registration
\* succeeds and is visible to later lookups, and lookups and Seal before any
\* registration do not fault and report not-found.
C23_ZeroValueTolerance ==
  /\ (last.op \in {"RegisterDispatch", "RegisterFactory", "Seal"}) => ~last.res.panic
  /\ (last.op = "RegisterDispatch") => last.v.typ \in DOMAIN HandlersOf(0)
  /\ (last.op = "RegisterFactory") => last.key \in DOMAIN FactoriesOf(0)
  /\ (/\ last.op = "Dispatch"
      /\ last.v.typ # NilType
      /\ DOMAIN Registered(last.reg) = {})
     => /\ ~last.res.panic
        /\ AllPass(last.mw) => last.res.err = ErrHandlerNotFound(last.v.typ)
  /\ (last.op = "CreateType" /\ DOMAIN RegisteredF(last.reg) = {})
     => /\ ~last.res.panic
        /\ last.res.err = ErrFactoryNotFound(last.key)

\* ------------------------------------------------------------------ C24
\* C24: when handlers are registered for both *T and T, Dispatch of a *T value
\* runs only the *T handler, on the original pointer; a handler runs on the
\* dereferenced value only when the pointer's own type has no handler.
C24_ExactMatchFirst ==
  /\ (/\ last.op = "Dispatch"
      /\ IsPtr(last.v.typ)
      /\ last.v.typ \in DOMAIN Registered(last.reg)
      /\ ElemType(last.v.typ) \in DOMAIN Registered(last.reg)
      /\ AllPass(last.mw))
     => /\ ~last.res.panic
        /\ HEvents(last.res.trace) = <<Event("H", Registered(last.reg)[last.v.typ].hid, last.v)>>
  /\ (/\ last.op = "Dispatch"
      /\ IsPtr(last.v.typ)
      /\ \E i \in 1..Len(last.res.trace) :
           /\ last.res.trace[i].e = "H"
           /\ last.res.trace[i].val = ElemValue(last.v))
     => last.v.typ \notin DOMAIN Registered(last.reg)

\* both registered with different handlers: the *T one ran on the pointer
C24_Witness ==
  /\ last.op = "Dispatch"
  /\ last.v.typ = 1
  /\ DOMAIN Registered(last.reg) = {0, 1}
  /\ Registered(last.reg)[0].hid # Registered(last.reg)[1].hid
  /\ HEvents(last.res.trace) = <<Event("H", Registered(last.reg)[1].hid, last.v)>>

FirstStop(middleware) ==
  IF \A i \in 1..Len(middleware) : middleware[i].cont /\ ~middleware[i].fails THEN 0
  ELSE CHOOSE i \in 1..Len(middleware) :
         /\ middleware[i].fails \/ ~middleware[i].cont
         /\ \A j \in 1..(i - 1) : middleware[j].cont /\ ~middleware[j].fails

FEvents(middleware, n) == [i \in 1..n |-> Event("F", middleware[i].id, NoValue)]

\* C26: MiddlewareFunc(f): when f returns an error, that error is returned and
\* next is not called; when f returns cont = false and no error, nil is
\* returned and next is not called; otherwise next is called once with the
\* same value and its result is returned (seen through Dispatch without
\* cross-cutting middleware).
C26_MiddlewareFunc ==
  (/\ last.op = "Dispatch"
   /\ last.mw = <<>>
   /\ last.v.typ \in DOMAIN Registered(last.reg))
  => LET reg == Registered(last.reg)[last.v.typ]
         k == FirstStop(reg.mw)
     IN /\ ~last.res.panic
        /\ (k = 0) =>
             /\ last.res.trace = FEvents(reg.mw, Len(reg.mw)) \o <<Event("H", reg.hid, last.v)>>
             /\ last.res.err = (IF reg.hid \in FailingHandlers THEN ErrUser("handler", reg.hid) ELSE NoErr)
        /\ (k > 0) =>
             /\ last.res.trace = FEvents(reg.mw, k)
             /\ last.res.err = (IF reg.mw[k].fails THEN ErrUser("f", reg.mw[k].id) ELSE NoErr)

\* the second function returns cont = false and no error in front of a
\* failing handler: Dispatch returns nil and the handler did not run
C26_Witness ==
  /\ last.op = "Dispatch"
  /\ last.mw = <<>>
  /\ last.v.typ \in DOMAIN latestH
  /\ latestH[last.v.typ].hid \in FailingHandlers
  /\ latestH[last.v.typ].mw = <<MwFunc(1, TRUE, FALSE), MwFunc(2, FALSE, FALSE)>>
  /\ last.res.err = NoErr
  /\ last.res.trace = <<Event("F", 1, NoValue), Event("F", 2, NoValue)>>

\* ------------------------------------------------------------------ C27
\* no handler matches a value of this type: neither its type nor, for a
\* pointer, its element type is registered
Unmatched(reg, typ) ==
  /\ typ # NilType
  /\ typ \notin DOMAIN Registered(reg)
  /\ ~(IsPtr(typ) /\ ElemType(typ) \in DOMAIN Registered(reg))

\* the first middleware of a list that returns without calling next (0: none)
FirstSkip(middleware) ==
  IF \A i \in 1..Len(middleware) : middleware[i].kind # "skip" THEN 0
  ELSE CHOOSE i \in 1..Len(middleware) :
         /\ middleware[i].kind = "skip"
         /\ \A j \in 1..(i - 1) : middleware[j].kind # "skip"

IsBefore(e) == e.e = "mw-before"
IsDropped(e) == e.e = "mw-dropped"

\* C27: with cross-cutting middleware and no matching handler, the middleware
\* are entered in list order up to the first that does not call next; when
\* all call next the innermost next returns HandlerNotFound, which a
\* middleware that drops next's error receives; and Dispatch returns what the
\* outermost middleware returns: HandlerNotFound when every middleware hands
\* it up, nil when one did not call next or dropped the error.
C27_LateResolution ==
  (/\ last.op = "Dispatch"
   /\ Len(last.mw) > 0
   /\ Unmatched(last.reg, last.v.typ))
  => LET k == FirstSkip(last.mw)
         n == IF k = 0 THEN Len(last.mw) ELSE k
         drops == { i \in 1..n : last.mw[i].kind = "swallow" }
         t == last.res.trace
     IN /\ ~last.res.panic
        /\ HEvents(t) = <<>>
        /\ SelectSeq(t, IsBefore) = Befores("mw", Prefix(last.mw, n))
        /\ last.res.err = (IF k = 0 /\ drops = {} THEN ErrHandlerNotFound(last.v.typ) ELSE NoErr)
        /\ (k = 0 /\ drops # {}) =>
             LET d == SelectSeq(t, IsDropped)
             IN /\ Len(d) = Cardinality(drops)
                /\ d[1].val = ErrHandlerNotFound(last.v.typ)
                /\ \A i \in 2..Len(d) : d[i].val = NoErr

\* [pass, swallow] around a T value while only *T is registered: both are
\* entered, the inner one receives HandlerNotFound and Dispatch returns nil
C27_Witness ==
  /\ last.op = "Dispatch"
  /\ DOMAIN Registered(last.reg) = {1}
  /\ Unmatched(last.reg, last.v.typ)
  /\ last.mw = <<Mw(1, "pass"), Mw(2, "swallow")>>
  /\ last.res.err = NoErr
  /\ last.res.trace =
       << Event("mw-before", 1, NoValue), Event("mw-before", 2, NoValue),
          Event("mw-dropped", 2, ErrHandlerNotFound(last.v.typ)),
          Event("mw-after", 1, NoValue) >>

\* ------------------------------------------------------------------ C28
\* thread t is in the body of its cross-cutting middleware, before next: in
\* the body itself or in the RegisterDispatch the body calls
InMiddleware(t) ==
  /\ th[t].op = "DispatchMw"
  /\ \/ th[t].pc \in {"m_before", "m_next"}
     \/ th[t].pc \in {"reg_lock", "reg_drain", "reg_write"} /\ th[t].ret = "m_next"

\* C28: a cross-cutting middleware runs with no registry lock held, so the
\* RegisterDispatch it makes on the same registry before calling next never
\* waits for a lock of its own thread; and the handler next resolves is the
\* one registered when next is called, that registration included.
C28_MiddlewareUnlocked ==
  \A t \in Threads :
    /\ InMiddleware(t) => (mu.h.r[t] = 0 /\ mu.f.r[t] = 0)
    /\ (InMiddleware(t) /\ th[t].pc = "reg_drain" /\ \A u \in Threads \ {t} : mu.h.r[u] = 0)
         => ENABLED RegDrain(t)
    /\ (th[t].op = "DispatchMw" /\ th[t].pc \in {"m_next", "d_rlock", "d_lookup"})
         => th[t].v.typ \in DOMAIN latestH
    /\ (th[t].op = "DispatchMw" /\ th[t].pc \in {"d_handler", "d_ret"})
         => AloneOutcome(0, th[t].v, th[t].res)

\* the middleware's registration went through and next ran the handler it
\* registered, while another thread was calling into the registry
C28_Witness ==
  \E t \in Threads :
    /\ th[t].op = "DispatchMw"
    /\ th[t].pc = "m_after"
    /\ HEvents(th[t].res.trace) = <<Event("H", 1, th[t].v)>>
    /\ \E u \in Threads \ {t} : th[u].pc \in {"reg_lock", "d_rlock"}

\* ------------------------------------------------------------------ C29
\* thread t is in a constructor that CreateType called: in its body, or in
\* the RegisterFactory or (outside the map read) the CreateType it calls
InConstructor(t) ==
  /\ th[t].op = "CreateType"
  /\ th[t].pc \in {"c_ctor", "fac_lock", "fac_drain", "fac_write", "nc_rlock", "c_ret"}

\* thread t is the announced writer of the factory registry, waiting for the
\* read locks to be released
DrainingF(t) == th[t].pc = "fac_drain" /\ mu.f.w = t

\* C29: the factory lock is released after the lookup and before the
\* constructor runs: a constructor holds no lock, so the RegisterFactory or
\* CreateType it makes on the same registry waits for no lock of its own
\* thread, and a RegisterFactory waits only for threads that are reading the
\* factory map, never for a running constructor.
C29_ConstructorUnlocked ==
  \A t \in Threads :
    /\ InConstructor(t) => mu.f.r[t] = 0
    /\ ~(DrainingF(t) /\ mu.f.r[t] > 0)
    /\ DrainingF(t) =>
         \A u \in Threads : mu.f.r[u] > 0 => th[u].pc \in {"c_get", "nc_get", "s_copy_f"}
    /\ (DrainingF(t) /\ \A u \in Threads \ {t} : th[u].pc \notin {"c_get", "nc_get", "s_copy_f"})
         => ENABLED FacDrain(t)

\* a RegisterFactory goes through its write while another thread's
\* constructor is running, and a constructor's own RegisterFactory does too
C29_Witness ==
  \E t \in Threads : \E u \in Threads \ {t} :
    /\ th[t].op = "CreateType"
    /\ th[t].pc = "c_ctor"
    /\ th[u].op = "RegisterFactory"
    /\ th[u].pc = "fac_write"

\* ------------------------------------------------------------------ C30
\* C30: Dispatch of a **T value with no **T handler looks one level down and
\* no further: with a *T handler registered that handler runs once on the
\* once-dereferenced pointer, and otherwise - also when T has a handler -
\* Dispatch returns HandlerNotFound for **T and runs no handler.
C30_SingleLevelFallback ==
  (/\ last.op = "Dispatch"
   /\ last.v.typ = 2
   /\ 2 \notin DOMAIN Registered(last.reg)
   /\ AllPass(last.mw))
  => /\ ~last.res.panic
     /\ IF 1 \in DOMAIN Registered(last.reg)
        THEN /\ HEvents(last.res.trace) = <<Event("H", Registered(last.reg)[1].hid, ElemValue(last.v))>>
             /\ last.res.err = NoErr
        ELSE /\ HEvents(last.res.trace) = <<>>
             /\ last.res.err = ErrHandlerNotFound(2)

====
